---- MODULE Spec2Model ----
(***************************************************************************)
(* Seat scoring (KnicksSeatSelector) and the recommendation run            *)
(* (RecommendationScheduler.runRecommendations) of knicks-seat-selector.   *)
(*                                                                         *)
(* Scores are rational numbers with denominator budget.max_per_seat: the   *)
(* model holds a score s as the integer s * max_per_seat, which is exact   *)
(* for integer prices (score === 0 iff the integer is 0, and the sign of   *)
(* b.score - a.score is the sign of the integer difference, because        *)
(* max_per_seat > 0 in every profile of the model).                        *)
(***************************************************************************)
EXTENDS Integers, Sequences, FiniteSets, TLC

VARIABLES
    preferences,      \* selector.preferences.preferences (the loaded profile)
    pc,               \* position of runRecommendations
    gameData,         \* result of ticketAPI.getUpcomingRecommendations(60)
    gi,               \* index of the next element of gameData in the for loop
    recommendations,  \* the local array recommendations
    scored,           \* <<game id, listingId>> of every scoreSection call of the run
    outbox,           \* recommendation lists handed to emailService.sendRecommendations
    returned,         \* <<list>> once runRecommendations returned a list, else <<>>
    bestSeats,        \* the local bestSeats of the latest loop iteration
    scoreArgs,        \* arguments of a direct scoreSection call
    scoreResult,      \* its return value
    sentMail,         \* the html and text bodies given to transporter.sendMail
    otherArgs,        \* arguments and profile of a second scoreSection call
    otherResult,      \* its return value
    preferredOpponents, \* <<preferred_opponents>>, or <<>> when it is not configured
    mpc,              \* position of runMatchupRecommendations
    games,            \* result of ticketAPI.getUpcomingGames()
    upcomingGames,    \* the games within the next 60 days
    mi,               \* index of the next element of upcomingGames
    gamesWithRatings, \* the local array gamesWithRatings
    labels,           \* the line logged for each rated game
    matchOutbox,      \* the matchup mails given to transporter.sendMail
    htmlContent,      \* <<body>> once generateMatchupEmailHTML resolved
    summary,          \* <<groups>> once logSummary ran, else <<>>
    mreturned,        \* <<list>> once runMatchupRecommendations returned a list
    allScoredList,    \* the local allScored of the latest loop iteration, else <<>>
    previous,         \* <<opponent, excitement>> of the ratings of the run before
    tiTeam,           \* teamName of the getTeamInfo call
    tiPc,             \* position of getTeamInfo
    espnReq,          \* the request of fetchESPNTeamData and its socket
    espnChunks,       \* 'data' events the response had so far
    fetchResult,      \* <<value>> once the promise of fetchESPNTeamData is settled
    tiResult,         \* <<value>> once getTeamInfo resolved
    mrReq,            \* the request of makeRequest and its socket
    mrChunks,         \* 'data' events the response had so far
    mrResult,         \* <<outcome>> once the promise of makeRequest is settled
    urPc,             \* position of getUpcomingRecommendations
    urGames,          \* result of its getUpcomingGames()
    urIdx,            \* index of the next game of upcomingGames.slice(0, 5)
    urRecs,           \* its local array recommendations
    urQueried         \* ids of the events getTicketsForEvent was called for

compareVars == <<otherArgs, otherResult>>

matchVars == <<preferredOpponents, mpc, games, upcomingGames, mi, gamesWithRatings,
               labels, htmlContent, matchOutbox, summary, mreturned, previous>>

teamInfoVars == <<tiTeam, tiPc, espnReq, espnChunks, fetchResult, tiResult>>

requestVars == <<mrReq, mrChunks, mrResult>>

upcomingVars == <<urPc, urGames, urIdx, urRecs, urQueried>>

ioVars == <<teamInfoVars, requestVars, upcomingVars>>

vars == <<preferences, pc, gameData, gi, recommendations, scored, outbox,
          returned, bestSeats, scoreArgs, scoreResult, sentMail, compareVars,
          matchVars, allScoredList, ioVars>>

runVars == <<pc, gameData, gi, recommendations, scored, outbox, returned, bestSeats,
             sentMail, allScoredList>>

(***************************************************************************)
(* Bounds of the model.                                                    *)
(***************************************************************************)
MaxTickets == 6         \* listings of the event in a one-event run
MaxGames == 3           \* events in a several-event run
MaxTicketsPerGame == 1  \* listings of each event in a several-event run

(***************************************************************************)
(* JavaScript values.                                                      *)
(***************************************************************************)
null == [isNull |-> TRUE]

\* NaN, the value of Math.round(undefined): no price and no score of a
\* listing is negative, so a negative number stands for it.  Arithmetic with
\* NaN gives NaN and every comparison with NaN is false.
NaN == 0 - 1

DigitStr == <<"0", "1", "2", "3", "4", "5", "6", "7", "8", "9">>

RECURSIVE toString(_)
toString(n) ==
    IF n < 10 THEN DigitStr[n + 1]
    ELSE toString(n \div 10) \o DigitStr[(n % 10) + 1]

(***************************************************************************)
(* getMSGSeatingMap: the tiers in Object.entries order.  A tier without a  *)
(* center or corners property has the empty set, for which the guard       *)
(* `sectionType.center && sectionType.center.includes(section)` is false.  *)
(***************************************************************************)
\* faulty variant: the upper tier starts at 127, a section of the lower tier
getMSGSeatingMap_overlap ==
    << [ type |-> "courtside",
         sections |-> {"Floor A", "Floor B", "Floor C", "Floor D"},
         priceRange |-> <<800, 3000>>,
         elevation |-> "courtside",
         center |-> {},
         corners |-> {} ],
       [ type |-> "lower100s",
         sections |-> { toString(101 + i) : i \in 0..26 },
         priceRange |-> <<200, 800>>,
         elevation |-> "lower",
         center |-> {"107", "108", "109", "110", "111", "112", "113", "114", "115", "116"},
         corners |-> {"101", "102", "103", "125", "126", "127"} ],
       [ type |-> "bridge",
         sections |-> { toString(1 + i) : i \in 0..8 },
         priceRange |-> <<150, 400>>,
         elevation |-> "bridge",
         center |-> {"4", "5", "6"},
         corners |-> {} ],
       [ type |-> "upper200s",
         sections |-> { toString(127 + i) : i \in 0..104 },
         priceRange |-> <<50, 200>>,
         elevation |-> "upper",
         center |-> {"210", "211", "212", "213", "214", "215", "216", "217"},
         corners |-> {"201", "202", "203", "229", "230", "231"} ] >>

getMSGSeatingMap ==
    << [ type |-> "courtside",
         sections |-> {"Floor A", "Floor B", "Floor C", "Floor D"},
         priceRange |-> <<800, 3000>>,
         elevation |-> "courtside",
         center |-> {},
         corners |-> {} ],
       [ type |-> "lower100s",
         sections |-> { toString(101 + i) : i \in 0..26 },
         priceRange |-> <<200, 800>>,
         elevation |-> "lower",
         center |-> {"107", "108", "109", "110", "111", "112", "113", "114", "115", "116"},
         corners |-> {"101", "102", "103", "125", "126", "127"} ],
       [ type |-> "bridge",
         sections |-> { toString(1 + i) : i \in 0..8 },
         priceRange |-> <<150, 400>>,
         elevation |-> "bridge",
         center |-> {"4", "5", "6"},
         corners |-> {} ],
       [ type |-> "upper200s",
         sections |-> { toString(201 + i) : i \in 0..30 },
         priceRange |-> <<50, 200>>,
         elevation |-> "upper",
         center |-> {"210", "211", "212", "213", "214", "215", "216", "217"},
         corners |-> {"201", "202", "203", "229", "230", "231"} ] >>

msgSeats == getMSGSeatingMap

elevationScore == [courtside |-> 4, lower |-> 3, bridge |-> 2, upper |-> 1]

(***************************************************************************)
(* scoreSection, one operator per step of the method.                      *)
(***************************************************************************)
\* faulty variant: the ceiling itself is rejected
priceRejected_inclusive(seatInfo, prefs) ==
    \/ seatInfo.price >= prefs.budget.max_per_seat
    \/ seatInfo.price < prefs.budget.min_per_seat

priceRejected(seatInfo, prefs) ==
    /\ seatInfo.price # NaN
    /\ \/ seatInfo.price > prefs.budget.max_per_seat
       \/ seatInfo.price < prefs.budget.min_per_seat

\* faulty variant: the minimum elevation itself is rejected
elevationRejected_inclusive(sectionType, prefs) ==
    elevationScore[sectionType.elevation] <= elevationScore[prefs.view.min_elevation]

elevationRejected(sectionType, prefs) ==
    elevationScore[sectionType.elevation] < elevationScore[prefs.view.min_elevation]

\* faulty variant: no center bonus
centerBonus_none(section, sectionType) == 0

\* faulty variant: a smaller center bonus
centerBonus_20(section, sectionType) ==
    IF section \in sectionType.center THEN 20 ELSE 0

centerBonus(section, sectionType) ==
    IF section \in sectionType.center THEN 30 ELSE 0

\* faulty variant: the penalty does not look at avoid_corners
cornerPenalty_always(section, sectionType, prefs) ==
    IF section \in sectionType.corners THEN 40 ELSE 0

cornerPenalty(section, sectionType, prefs) ==
    IF prefs.view.avoid_corners /\ section \in sectionType.corners THEN 40 ELSE 0

\* `seatInfo.row && ...`: the number 0 is falsy
rowBonus(seatInfo, prefs) ==
    IF seatInfo.row # 0 /\ seatInfo.row <= prefs.location.max_row THEN 20 ELSE 0

aisleBonus(seatInfo, prefs) ==
    IF prefs.location.aisle_seats /\ seatInfo.isAisle THEN 15 ELSE 0

\* (1 - price / max_per_seat) * 20, times max_per_seat
priceValue(seatInfo, prefs) ==
    IF seatInfo.price = NaN THEN NaN
    ELSE (prefs.budget.max_per_seat - seatInfo.price) * 20

\* faulty variant: `let score = 0`
scoreSection_startAtZero(section, seatInfo, sectionType, prefs) ==
    IF priceRejected(seatInfo, prefs) THEN 0
    ELSE IF elevationRejected(sectionType, prefs) THEN 0
    ELSE (0 + centerBonus(section, sectionType)
            - cornerPenalty(section, sectionType, prefs)
            + rowBonus(seatInfo, prefs)
            + aisleBonus(seatInfo, prefs)) * prefs.budget.max_per_seat
         + priceValue(seatInfo, prefs)

scoreSection(section, seatInfo, sectionType, prefs) ==
    IF priceRejected(seatInfo, prefs) THEN 0
    ELSE IF elevationRejected(sectionType, prefs) THEN 0
    ELSE IF priceValue(seatInfo, prefs) = NaN THEN NaN
    ELSE (100 + centerBonus(section, sectionType)
              - cornerPenalty(section, sectionType, prefs)
              + rowBonus(seatInfo, prefs)
              + aisleBonus(seatInfo, prefs)) * prefs.budget.max_per_seat
         + priceValue(seatInfo, prefs)

(***************************************************************************)
(* Section lookup: the scan over Object.entries(msgSeats).                 *)
(***************************************************************************)
RECURSIVE scanTiers(_, _)
scanTiers(section, i) ==
    IF i > Len(msgSeats) THEN null
    ELSE IF section \in msgSeats[i].sections THEN msgSeats[i]
    ELSE scanTiers(section, i + 1)

\* faulty variant: an unknown section falls into the last tier
getSectionType_lastTier(section) ==
    IF scanTiers(section, 1) = null THEN msgSeats[Len(msgSeats)]
    ELSE scanTiers(section, 1)

\* RecommendationScheduler.getSectionType
getSectionType(section) == scanTiers(section, 1)

\* the inline lookup of findBestSeats
findSectionType(section) == scanTiers(section, 1)

(***************************************************************************)
(* findBestSeats.                                                          *)
(***************************************************************************)
totalCostOf(seatOption) ==
    IF seatOption.price = NaN THEN NaN
    ELSE seatOption.price * Len(seatOption.seats)

\* the two `continue` checks before the section lookup
preFiltered(seatOption, prefs) ==
    \/ prefs.location.together /\ Len(seatOption.seats) < 2
    \/ /\ totalCostOf(seatOption) # NaN
       /\ totalCostOf(seatOption) > prefs.budget.total_max

\* { ...seatOption, score, totalCost, elevation }
withScore(ticket, score, sectionType) ==
    [score |-> score, totalCost |-> totalCostOf(ticket),
     elevation |-> sectionType.elevation] @@ ticket

RECURSIVE findBestFrom(_, _, _, _, _)
findBestFrom(availableSeats, i, bestOption, bestScore, prefs) ==
    IF i > Len(availableSeats) THEN bestOption
    ELSE
      LET seatOption == availableSeats[i]
          sectionType == findSectionType(seatOption.section)
      IN IF preFiltered(seatOption, prefs)
         THEN findBestFrom(availableSeats, i + 1, bestOption, bestScore, prefs)
         ELSE IF sectionType = null
         THEN findBestFrom(availableSeats, i + 1, bestOption, bestScore, prefs)
         ELSE LET score == scoreSection(seatOption.section, seatOption, sectionType, prefs)
              IN IF score # NaN /\ score > bestScore
                 THEN findBestFrom(availableSeats, i + 1,
                                   withScore(seatOption, score, sectionType), score, prefs)
                 ELSE findBestFrom(availableSeats, i + 1, bestOption, bestScore, prefs)

findBestSeats(availableSeats, prefs) ==
    findBestFrom(availableSeats, 1, null, 0, prefs)

(***************************************************************************)
(* The ranking step of runRecommendations: map, filter, sort, slice.       *)
(***************************************************************************)
\* faulty variant: without `if (score === 0) return null`
scoreTicket_keepZero(ticket, prefs) ==
    LET sectionType == getSectionType(ticket.section)
    IN IF sectionType = null THEN null
       ELSE withScore(ticket,
                      scoreSection(ticket.section, ticket, sectionType, prefs),
                      sectionType)

\* the callback of data.tickets.map
scoreTicket(ticket, prefs) ==
    LET sectionType == getSectionType(ticket.section)
    IN IF sectionType = null THEN null
       ELSE LET score == scoreSection(ticket.section, ticket, sectionType, prefs)
            IN IF score = 0 THEN null
               ELSE withScore(ticket, score, sectionType)

\* .filter(t => t !== null)
filterNotNull(arr) == SelectSeq(arr, LAMBDA t : t # null)

\* (a, b) => b.score - a.score
compareScore(a, b) ==
    IF a.score = NaN \/ b.score = NaN THEN NaN ELSE b.score - a.score

\* Array.prototype.sort is stable: an element goes behind every element that
\* does not compare greater than it.
RECURSIVE insertAt(_, _, _)
insertAt(sorted, x, j) ==
    IF j > Len(sorted) THEN Append(sorted, x)
    ELSE IF compareScore(sorted[j], x) # NaN /\ compareScore(sorted[j], x) > 0
    THEN SubSeq(sorted, 1, j - 1) \o <<x>> \o SubSeq(sorted, j, Len(sorted))
    ELSE insertAt(sorted, x, j + 1)

RECURSIVE sortFrom(_, _, _)
sortFrom(arr, i, sorted) ==
    IF i > Len(arr) THEN sorted
    ELSE sortFrom(arr, i + 1, insertAt(sorted, arr[i], 1))

\* faulty variant: a sort that puts an element before its equals
RECURSIVE insertAtUnstable(_, _, _)
insertAtUnstable(sorted, x, j) ==
    IF j > Len(sorted) THEN Append(sorted, x)
    ELSE IF compareScore(sorted[j], x) # NaN /\ compareScore(sorted[j], x) >= 0
    THEN SubSeq(sorted, 1, j - 1) \o <<x>> \o SubSeq(sorted, j, Len(sorted))
    ELSE insertAtUnstable(sorted, x, j + 1)

RECURSIVE sortFromUnstable(_, _, _)
sortFromUnstable(arr, i, sorted) ==
    IF i > Len(arr) THEN sorted
    ELSE sortFromUnstable(arr, i + 1, insertAtUnstable(sorted, arr[i], 1))

sortByScore_unstable(arr) == sortFromUnstable(arr, 1, <<>>)

sortByScore(arr) == sortFrom(arr, 1, <<>>)

allScoredOf(tickets, prefs) ==
    sortByScore(filterNotNull([k \in 1..Len(tickets) |-> scoreTicket(tickets[k], prefs)]))

\* faulty variant: slice(0, 6)
topFive_six(allScored) == SubSeq(allScored, 1, IF Len(allScored) < 6 THEN Len(allScored) ELSE 6)

\* allScored.slice(0, 5)
topFive(allScored) == SubSeq(allScored, 1, IF Len(allScored) < 5 THEN Len(allScored) ELSE 5)

\* the listings of `tickets` that reach a scoreSection call, in findBestSeats
\* or (when findBestSeats returned a listing) in the map callback
scoredListings(tickets, prefs) ==
    { tickets[k].listingId : k \in
        { k \in 1..Len(tickets) :
            /\ getSectionType(tickets[k].section) # null
            /\ \/ ~preFiltered(tickets[k], prefs)
               \/ findBestSeats(tickets, prefs) # null } }

(***************************************************************************)
(* The loop body of runRecommendations for one element of gameData.        *)
(***************************************************************************)
\* faulty variant: the score is written into the listing itself
ticketsAfterRanking_inPlace(tickets, prefs) ==
    [k \in DOMAIN tickets |->
        IF scoreTicket(tickets[k], prefs) # null
        THEN scoreTicket(tickets[k], prefs)
        ELSE tickets[k]]

\* data.tickets after findBestSeats and the map/filter/sort chain: both read
\* the listings and build new objects ({ ...seatOption }, { ...ticket }); map
\* and filter return new arrays and sort orders the new one
ticketsAfterRanking(tickets, prefs) == tickets

\* faulty variant: without the two guards around the push
pushRecommendation_always(recs, data, prefs) ==
    Append(recs, [game |-> data.game,
                  bestSeats |-> topFive(allScoredOf(data.tickets, prefs))])

pushRecommendation(recs, data, prefs) ==
    IF findBestSeats(data.tickets, prefs) # null
       /\ Len(allScoredOf(data.tickets, prefs)) > 0
    THEN Append(recs, [game |-> data.game,
                       bestSeats |-> topFive(allScoredOf(data.tickets, prefs))])
    ELSE recs

(***************************************************************************)
(* Inputs.  Listings as transformListing produces them; the profiles are   *)
(* preferences.yaml contents.                                              *)
(***************************************************************************)
Profile(minp, maxp, total, maxrow, tog, aisle, elev, avoid) ==
    [ budget |-> [min_per_seat |-> minp, max_per_seat |-> maxp, total_max |-> total],
      location |-> [max_row |-> maxrow, together |-> tog, aisle_seats |-> aisle],
      view |-> [min_elevation |-> elev, avoid_corners |-> avoid] ]

RunProfiles ==
    { Profile(200, 400, 600, 20, TRUE, FALSE, "lower", TRUE),
      Profile(200, 400, 600, 20, FALSE, TRUE, "bridge", FALSE) }

Kind(section, row, seats, price, isAisle) ==
    [section |-> section, row |-> row, seats |-> seats, price |-> price,
     isAisle |-> isAisle]

RunKinds ==
    { Kind("109", 8, <<5, 6>>, 295, FALSE),
      Kind("110", 8, <<1, 2, 3>>, 295, FALSE),
      Kind("5", 3, <<8, 9>>, 250, FALSE),
      Kind("Unknown", 1, <<1, 2>>, 295, TRUE) }

SmallKinds ==
    { Kind("109", 8, <<5, 6>>, 295, FALSE),
      Kind("105", 8, <<4>>, 295, FALSE) }

\* the listings of game g: listing k of the response gets a distinct id
Tickets(g, f) == [k \in DOMAIN f |-> [listingId |-> 10 * g + k] @@ f[k]]

KindLists(kinds, maxLen) == UNION { [1..n -> kinds] : n \in 1..maxLen }

OneGameInputs ==
    { <<[game |-> [id |-> 1], tickets |-> Tickets(1, f)]>> :
        f \in KindLists(RunKinds, MaxTickets) }

SeveralGameInputs ==
    UNION { { [g \in 1..n |-> [game |-> [id |-> g], tickets |-> Tickets(g, fs[g])]] :
                fs \in [1..n -> KindLists(SmallKinds, MaxTicketsPerGame)] } :
            n \in 2..MaxGames }

GameDataInputs == {<<>>} \cup OneGameInputs \cup SeveralGameInputs

(***************************************************************************)
(* EmailService.generateEmailHTML / generateEmailText: what the mail shows *)
(* for each recommendation, a block per seat with its badge.               *)
(***************************************************************************)
\* i === 0 ? 'BEST MATCH' : `#${i + 1}`, i counted from 0
seatBadge(i) == IF i = 0 THEN "BEST MATCH" ELSE "#" \o toString(i + 1)

\* faulty variant: the mail shows the whole ranked list
topSeatsHTML_all(seats) == seats

\* rec.bestSeats.slice(0, 3) of generateEmailHTML
topSeatsHTML(seats) == SubSeq(seats, 1, IF Len(seats) < 3 THEN Len(seats) ELSE 3)

\* rec.bestSeats.slice(0, 3) of generateEmailText
topSeatsText(seats) == SubSeq(seats, 1, IF Len(seats) < 3 THEN Len(seats) ELSE 3)

seatBlocks(topSeats) ==
    [k \in DOMAIN topSeats |-> [badge |-> seatBadge(k - 1), seat |-> topSeats[k]]]

generateEmailHTML(recs) ==
    IF Len(recs) = 0 THEN <<>>
    ELSE [k \in DOMAIN recs |->
            [game |-> recs[k].game, seats |-> seatBlocks(topSeatsHTML(recs[k].bestSeats))]]

generateEmailText(recs) ==
    IF Len(recs) = 0 THEN <<>>
    ELSE [k \in DOMAIN recs |->
            [game |-> recs[k].game, seats |-> seatBlocks(topSeatsText(recs[k].bestSeats))]]

(***************************************************************************)
(* The state of the parts that are not running.                            *)
(***************************************************************************)
IdleCompare ==
    /\ otherArgs = null
    /\ otherResult = <<>>

IdleMatch ==
    /\ preferredOpponents = <<>>
    /\ mpc = "idle"
    /\ games = <<>>
    /\ upcomingGames = <<>>
    /\ mi = 1
    /\ gamesWithRatings = <<>>
    /\ labels = <<>>
    /\ htmlContent = <<>>
    /\ matchOutbox = <<>>
    /\ summary = <<>>
    /\ mreturned = <<>>
    /\ previous = {}

IdleIO ==
    /\ tiTeam = ""
    /\ tiPc = "idle"
    /\ espnReq = "none"
    /\ espnChunks = <<>>
    /\ fetchResult = <<>>
    /\ tiResult = <<>>
    /\ mrReq = "none"
    /\ mrChunks = <<>>
    /\ mrResult = <<>>
    /\ urPc = "idle"
    /\ urGames = <<>>
    /\ urIdx = 1
    /\ urRecs = <<>>
    /\ urQueried = <<>>

(***************************************************************************)
(* runRecommendations.                                                     *)
(***************************************************************************)
Init ==
    /\ preferences \in RunProfiles
    /\ pc = "start"
    /\ gameData = <<>>
    /\ gi = 1
    /\ recommendations = <<>>
    /\ scored = {}
    /\ outbox = <<>>
    /\ returned = <<>>
    /\ bestSeats = null
    /\ scoreArgs = null
    /\ scoreResult = <<>>
    /\ sentMail = <<>>
    /\ allScoredList = <<>>
    /\ IdleIO
    /\ IdleCompare
    /\ IdleMatch

\* await getUpcomingRecommendations(60) resolves; `return` when it is empty
FetchFrom(inputs) ==
    /\ pc = "start"
    /\ \E gd \in inputs :
         /\ gameData' = gd
         /\ pc' = IF Len(gd) = 0 THEN "done" ELSE "loop"
    /\ UNCHANGED <<preferences, allScoredList, gi, recommendations, scored, outbox, returned,
                   bestSeats, scoreArgs, scoreResult,
                   sentMail, compareVars, matchVars, ioVars>>

FetchGames == FetchFrom(GameDataInputs)

\* await getUpcomingRecommendations(60) rejects; the catch block rethrows
FetchFails ==
    /\ pc = "start"
    /\ pc' = "failed"
    /\ UNCHANGED <<preferences, allScoredList, gameData, gi, recommendations, scored, outbox,
                   returned, bestSeats, scoreArgs, scoreResult,
                   sentMail, compareVars, matchVars, ioVars>>

\* one iteration of `for (const data of gameData)`
AnalyzeGame ==
    /\ pc = "loop"
    /\ gi <= Len(gameData)
    /\ bestSeats' = findBestSeats(gameData[gi].tickets, preferences)
    /\ recommendations' = pushRecommendation(recommendations, gameData[gi], preferences)
    /\ scored' = scored \cup
         { <<gameData[gi].game.id, l>> :
             l \in scoredListings(gameData[gi].tickets, preferences) }
    /\ gi' = gi + 1
    /\ allScoredList' = IF findBestSeats(gameData[gi].tickets, preferences) # null
                    THEN allScoredOf(gameData[gi].tickets, preferences)
                    ELSE <<>>
    /\ gameData' = [gameData EXCEPT
                      ![gi].tickets = ticketsAfterRanking(@, preferences)]
    /\ UNCHANGED <<preferences, pc, outbox, returned, scoreArgs, scoreResult,
                   sentMail, compareVars, matchVars, ioVars>>

\* recommendations.length === 0 after the loop: return without sending
NoSeatsFound ==
    /\ pc = "loop"
    /\ gi > Len(gameData)
    /\ recommendations = <<>>
    /\ pc' = "done"
    /\ UNCHANGED <<preferences, allScoredList, gameData, gi, recommendations, scored, outbox,
                   returned, bestSeats, scoreArgs, scoreResult,
                   sentMail, compareVars, matchVars, ioVars>>

\* faulty variant: the send without the test for an empty list
SendRecommendations_whenEmpty ==
    /\ pc = "loop"
    /\ gi > Len(gameData)
    /\ outbox' = Append(outbox, recommendations)
    /\ sentMail' = Append(sentMail, [html |-> generateEmailHTML(recommendations),
                                     text |-> generateEmailText(recommendations)])
    /\ pc' = "sending"
    /\ UNCHANGED <<preferences, allScoredList, gameData, gi, recommendations, scored,
                   returned, bestSeats, scoreArgs, scoreResult, compareVars, matchVars,
                   ioVars>>

\* emailService.sendRecommendations(recipients, recommendations) is called
SendRecommendations ==
    /\ pc = "loop"
    /\ gi > Len(gameData)
    /\ recommendations # <<>>
    /\ outbox' = Append(outbox, recommendations)
    /\ sentMail' = Append(sentMail, [html |-> generateEmailHTML(recommendations),
                                     text |-> generateEmailText(recommendations)])
    /\ pc' = "sending"
    /\ UNCHANGED <<preferences, allScoredList, gameData, gi, recommendations, scored, returned,
                   bestSeats, scoreArgs, scoreResult, compareVars, matchVars, ioVars>>

\* the send resolved: logSummary, return recommendations
SendResolves ==
    /\ pc = "sending"
    /\ returned' = <<recommendations>>
    /\ pc' = "done"
    /\ UNCHANGED <<preferences, allScoredList, gameData, gi, recommendations, scored, outbox,
                   bestSeats, scoreArgs, scoreResult,
                   sentMail, compareVars, matchVars, ioVars>>

\* the send rejected: the catch block rethrows
SendRejects ==
    /\ pc = "sending"
    /\ pc' = "failed"
    /\ UNCHANGED <<preferences, allScoredList, gameData, gi, recommendations, scored, outbox,
                   returned, bestSeats, scoreArgs, scoreResult,
                   sentMail, compareVars, matchVars, ioVars>>

Next ==
    \/ FetchGames
    \/ FetchFails
    \/ AnalyzeGame
    \/ NoSeatsFound
    \/ SendRecommendations
    \/ SendResolves
    \/ SendRejects

Spec == Init /\ [][Next]_vars

(***************************************************************************)
(* A run on listings as the ticket source sends them, some without a       *)
(* price, each passed through TicketAPI.transformListing.                  *)
(***************************************************************************)
MaxRawListings == 3

\* `listing.f || d`: a missing member or a 0 gives the default
orDefault(listing, f, d) ==
    IF f \in DOMAIN listing /\ listing[f] # 0 THEN listing[f] ELSE d

\* Math.round(listing.price); the prices of the model are whole numbers
roundPrice(listing) ==
    IF "price" \in DOMAIN listing THEN listing.price ELSE NaN

transformListing(listing) ==
    [section |-> IF "section" \in DOMAIN listing THEN listing.section ELSE "Unknown",
     row |-> orDefault(listing, "row", 1),
     seats |-> [i \in 1..orDefault(listing, "quantity", 2) |->
                  orDefault(listing, "seat_number", 1) + (i - 1)],
     price |-> roundPrice(listing),
     isAisle |-> "seat_number" \in DOMAIN listing /\ listing.seat_number = 1,
     listingId |-> listing.id]

RawKinds ==
    { [section |-> "109", row |-> 8, quantity |-> 2, seat_number |-> 5, price |-> 295],
      [section |-> "5", row |-> 3, price |-> 250],
      [section |-> "110", row |-> 8, quantity |-> 2, seat_number |-> 1],
      [row |-> 2, quantity |-> 2] }

\* the listings of an answer: listing k gets the id k
RawListings(f) == [k \in DOMAIN f |-> [id |-> k] @@ f[k]]

MalformedInputs ==
    { <<[game |-> [id |-> 1],
         tickets |-> [k \in DOMAIN f |-> transformListing(RawListings(f)[k])]]>> :
        f \in KindLists(RawKinds, MaxRawListings) }

FetchMalformed == FetchFrom(MalformedInputs)

NextMalformed ==
    \/ FetchMalformed
    \/ FetchFails
    \/ AnalyzeGame
    \/ NoSeatsFound
    \/ SendRecommendations
    \/ SendResolves
    \/ SendRejects

SpecMalformed == Init /\ [][NextMalformed]_vars

(***************************************************************************)
(* A direct call of scoreSection with arbitrary arguments.                 *)
(***************************************************************************)
ScoreProfiles ==
    { Profile(b[1], b[2], 600, 20, TRUE, aisle, elev, avoid) :
        b \in {<<200, 400>>, <<300, 300>>, <<400, 200>>},
        aisle \in BOOLEAN,
        elev \in {"courtside", "lower", "bridge", "upper"},
        avoid \in BOOLEAN }

ScoreSections == {"109", "101", "104", "5", "2", "227", "201", "Floor A"}

ScoreRows == {-1, 0, 1, 20, 21}

ScorePrices == {199, 200, 295, 300, 400, 401}

ScoreArgsInputs ==
    { [section |-> sec,
       seatInfo |-> Kind(sec, row, <<1, 2>>, price, aisle),
       sectionType |-> msgSeats[t]] :
        sec \in ScoreSections, row \in ScoreRows, price \in ScorePrices,
        aisle \in BOOLEAN, t \in 1..Len(msgSeats) }

InitScore ==
    /\ preferences \in ScoreProfiles
    /\ pc = "idle"
    /\ gameData = <<>>
    /\ gi = 1
    /\ recommendations = <<>>
    /\ scored = {}
    /\ outbox = <<>>
    /\ returned = <<>>
    /\ bestSeats = null
    /\ scoreArgs \in ScoreArgsInputs
    /\ scoreResult = <<>>
    /\ sentMail = <<>>
    /\ allScoredList = <<>>
    /\ IdleIO
    /\ IdleCompare
    /\ IdleMatch

CallScoreSection ==
    /\ pc = "idle"
    /\ scoreResult = <<>>
    /\ scoreResult' = <<scoreSection(scoreArgs.section, scoreArgs.seatInfo,
                                     scoreArgs.sectionType, preferences)>>
    /\ UNCHANGED <<preferences, scoreArgs, runVars, compareVars, matchVars, ioVars>>

NextScore == CallScoreSection

SpecScore == InitScore /\ [][NextScore]_vars

(***************************************************************************)
(* NBADataService.  A team's data is reduced to the one field the rating   *)
(* and the badges read, excitement.                                        *)
(***************************************************************************)
teamIds ==
    ("Boston Celtics" :> "2") @@ ("Cleveland Cavaliers" :> "5")
    @@ ("Philadelphia 76ers" :> "20") @@ ("Milwaukee Bucks" :> "15")
    @@ ("Miami Heat" :> "14") @@ ("Brooklyn Nets" :> "17")
    @@ ("Los Angeles Lakers" :> "13") @@ ("Golden State Warriors" :> "9")
    @@ ("Dallas Mavericks" :> "6") @@ ("Chicago Bulls" :> "4")
    @@ ("Washington Wizards" :> "27") @@ ("Minnesota Timberwolves" :> "16")
    @@ ("New York Knicks" :> "18") @@ ("Oklahoma City Thunder" :> "25")
    @@ ("Denver Nuggets" :> "7") @@ ("Phoenix Suns" :> "21")

\* teamIds[teamName]; the undefined of a missing key is the falsy ""
getESPNTeamId(teamName) ==
    IF teamName \in DOMAIN teamIds THEN teamIds[teamName] ELSE ""

fallbackData ==
    ("Boston Celtics" :> 10) @@ ("Cleveland Cavaliers" :> 8)
    @@ ("Philadelphia 76ers" :> 9) @@ ("Milwaukee Bucks" :> 9)
    @@ ("Miami Heat" :> 6) @@ ("Brooklyn Nets" :> 4)
    @@ ("Los Angeles Lakers" :> 10) @@ ("Golden State Warriors" :> 9)
    @@ ("Dallas Mavericks" :> 9) @@ ("Chicago Bulls" :> 5)
    @@ ("Washington Wizards" :> 3) @@ ("Minnesota Timberwolves" :> 8)
    @@ ("Oklahoma City Thunder" :> 8) @@ ("Denver Nuggets" :> 10)
    @@ ("Phoenix Suns" :> 9)

\* data[teamName] || null
getFallbackTeamData(teamName) ==
    IF teamName \in DOMAIN fallbackData
    THEN [excitement |-> fallbackData[teamName]]
    ELSE null

\* team.displayName of the ESPN answer for a team id: the name the id is
\* registered under
displayNameOf(espnTeamId) ==
    CHOOSE name \in DOMAIN teamIds : teamIds[name] = espnTeamId

\* what the ESPN request can end in: an answer with a team, or anything that
\* resolves null (no team, parse error, request error, timeout)
FetchOutcomes == {"team", "none"}

fetchESPNTeamData(espnTeamId, outcome) ==
    IF outcome = "team"
    THEN LET fallback == getFallbackTeamData(displayNameOf(espnTeamId))
         IN [excitement |-> IF fallback # null THEN fallback.excitement ELSE 5]
    ELSE null

getTeamInfo(teamName, outcome) ==
    LET espnTeamId == getESPNTeamId(teamName)
    IN IF espnTeamId = "" THEN getFallbackTeamData(teamName)
       ELSE LET teamData == fetchESPNTeamData(espnTeamId, outcome)
            IN IF teamData # null THEN teamData
               ELSE getFallbackTeamData(teamName)

(***************************************************************************)
(* TicketAPI.extractOpponent.  A title is the sequence of the pieces that  *)
(* the separators " at " and " vs " cut it into, separators included.      *)
(***************************************************************************)
RECURSIVE joinTitle(_)
joinTitle(title) ==
    IF Len(title) = 0 THEN "" ELSE Head(title) \o joinTitle(Tail(title))

\* title.split(/ at | vs /)
splitTitle(title) == SelectSeq(title, LAMBDA piece : piece \notin {" at ", " vs "})

extractOpponent(title) ==
    LET parts == splitTitle(title)
    IN IF Len(parts) > 1 THEN parts[2] ELSE joinTitle(title)

(***************************************************************************)
(* MatchupScheduler: the rating of one game.                               *)
(***************************************************************************)
\* faulty variant: no default for a missing team
baseExcitement_noDefault(opponentInfo) ==
    IF opponentInfo = null THEN 0 ELSE opponentInfo.excitement

\* opponentInfo?.excitement || 5
baseExcitement(opponentInfo) ==
    IF opponentInfo = null THEN 5
    ELSE IF opponentInfo.excitement = 0 THEN 5
    ELSE opponentInfo.excitement

\* preferred_opponents?.includes(opponent) || false
isPreferredOpponent(prefOpps, opponent) ==
    IF Len(prefOpps) = 0 THEN FALSE
    ELSE \E i \in DOMAIN prefOpps[1] : prefOpps[1][i] = opponent

\* faulty variant: the boost without the cap
adjustedExcitement_uncapped(excitement, isPreferred) ==
    IF isPreferred THEN excitement + 1 ELSE excitement

\* isPreferred ? Math.min(excitement + 1, 10) : excitement
adjustedExcitement(excitement, isPreferred) ==
    IF isPreferred
    THEN (IF excitement + 1 < 10 THEN excitement + 1 ELSE 10)
    ELSE excitement

\* faulty variant: the boost starts from the value stored by the run before
rateGame_accumulating(game, prefOpps, outcome) ==
    LET opponent == extractOpponent(game.title)
        opponentInfo == getTeamInfo(opponent, outcome)
        stored == { p \in previous : p[1] = opponent }
        excitement == IF stored = {} THEN baseExcitement(opponentInfo)
                      ELSE (CHOOSE p \in stored : TRUE)[2]
        isPreferred == isPreferredOpponent(prefOpps, opponent)
    IN [id |-> game.id, title |-> game.title, opponent |-> opponent,
        date |-> game.datetime_local,
        excitement |-> adjustedExcitement(excitement, isPreferred),
        isPreferred |-> isPreferred, opponentInfo |-> opponentInfo]

rateGame(game, prefOpps, outcome) ==
    LET opponent == extractOpponent(game.title)
        opponentInfo == getTeamInfo(opponent, outcome)
        excitement == baseExcitement(opponentInfo)
        isPreferred == isPreferredOpponent(prefOpps, opponent)
    IN [id |-> game.id, title |-> game.title, opponent |-> opponent,
        date |-> game.datetime_local,
        excitement |-> adjustedExcitement(excitement, isPreferred),
        isPreferred |-> isPreferred, opponentInfo |-> opponentInfo]

\* the fire marks of the log line
excitementLabel(excitement) ==
    IF excitement >= 9 THEN "fire fire fire"
    ELSE IF excitement >= 7 THEN "fire fire"
    ELSE IF excitement >= 6 THEN "fire"
    ELSE ""

logLine(rated) ==
    [label |-> excitementLabel(rated.excitement), opponent |-> rated.opponent,
     excitement |-> rated.excitement, isPreferred |-> rated.isPreferred]

(***************************************************************************)
(* gamesWithRatings.sort((a, b) => b.excitement - a.excitement)            *)
(***************************************************************************)
compareExcitement(a, b) == b.excitement - a.excitement

RECURSIVE insertRated(_, _, _)
insertRated(sorted, x, j) ==
    IF j > Len(sorted) THEN Append(sorted, x)
    ELSE IF compareExcitement(sorted[j], x) > 0
    THEN SubSeq(sorted, 1, j - 1) \o <<x>> \o SubSeq(sorted, j, Len(sorted))
    ELSE insertRated(sorted, x, j + 1)

RECURSIVE sortRatedFrom(_, _, _)
sortRatedFrom(arr, i, sorted) ==
    IF i > Len(arr) THEN sorted
    ELSE sortRatedFrom(arr, i + 1, insertRated(sorted, arr[i], 1))

\* faulty variant: a sort that puts a game before its equals
RECURSIVE insertRatedUnstable(_, _, _)
insertRatedUnstable(sorted, x, j) ==
    IF j > Len(sorted) THEN Append(sorted, x)
    ELSE IF compareExcitement(sorted[j], x) >= 0
    THEN SubSeq(sorted, 1, j - 1) \o <<x>> \o SubSeq(sorted, j, Len(sorted))
    ELSE insertRatedUnstable(sorted, x, j + 1)

RECURSIVE sortRatedFromUnstable(_, _, _)
sortRatedFromUnstable(arr, i, sorted) ==
    IF i > Len(arr) THEN sorted
    ELSE sortRatedFromUnstable(arr, i + 1, insertRatedUnstable(sorted, arr[i], 1))

sortByExcitement_unstable(arr) == sortRatedFromUnstable(arr, 1, <<>>)

sortByExcitement(arr) == sortRatedFrom(arr, 1, <<>>)

(***************************************************************************)
(* MatchupScheduler.logSummary: the four groups it prints.                 *)
(***************************************************************************)
mustSeeOf(list) == SelectSeq(list, LAMBDA g : g.excitement >= 9)

\* faulty variant: 7 itself left out
premierOf_exclusive(list) ==
    SelectSeq(list, LAMBDA g : g.excitement > 7 /\ g.excitement < 9)

premierOf(list) == SelectSeq(list, LAMBDA g : g.excitement >= 7 /\ g.excitement < 9)

excitingOf(list) == SelectSeq(list, LAMBDA g : g.excitement >= 6 /\ g.excitement < 7)

standardOf(list) == SelectSeq(list, LAMBDA g : g.excitement < 6)

logSummary(list) ==
    [mustSee |-> mustSeeOf(list), premier |-> premierOf(list),
     exciting |-> excitingOf(list), standard |-> standardOf(list)]

(***************************************************************************)
(* EmailService.generateMatchupEmailHTML / generateMatchupEmailText: the   *)
(* badge of each game block.  Both ask getTeamInfo again for each game.    *)
(***************************************************************************)
excitementText(excitement) ==
    IF excitement >= 9 THEN "MUST-SEE GAME"
    ELSE IF excitement >= 7 THEN "PREMIER MATCHUP"
    ELSE IF excitement >= 6 THEN "Exciting Game"
    ELSE "Standard Matchup"

excitementBadge(excitement) ==
    IF excitement >= 9 THEN "MUST-SEE GAME"
    ELSE IF excitement >= 7 THEN "PREMIER MATCHUP"
    ELSE IF excitement >= 6 THEN "Exciting Game"
    ELSE ""

\* outcomes[k]: how the ESPN request for game k ends
generateMatchupEmailHTML(list, outcomes) ==
    [noGames |-> Len(list) = 0,
     blocks |-> [k \in DOMAIN list |->
        [opponent |-> list[k].opponent,
         badge |-> excitementText(
                     baseExcitement(getTeamInfo(list[k].opponent, outcomes[k])))]]]

generateMatchupEmailText(list, outcomes) ==
    [noGames |-> Len(list) = 0,
     blocks |-> [k \in DOMAIN list |->
        [opponent |-> list[k].opponent,
         badge |-> excitementBadge(
                     baseExcitement(getTeamInfo(list[k].opponent, outcomes[k])))]]]

(***************************************************************************)
(* runMatchupRecommendations.  Dates are whole days counted from now.      *)
(***************************************************************************)
MaxMatchGames == 3

WindowDays == 60

\* gameDate <= cutoffDate && gameDate > new Date()
inWindow(game) == game.datetime_local <= WindowDays /\ game.datetime_local > 0

Event(title, day) == [title |-> title, datetime_local |-> day]

EventKinds ==
    { Event(<<"New York Knicks", " vs ", "Boston Celtics">>, 10),
      Event(<<"New York Knicks", " vs ", "Philadelphia 76ers">>, 20),
      Event(<<"New York Knicks", " vs ", "Cleveland Cavaliers">>, 30),
      Event(<<"New York Knicks", " vs ", "Miami Heat">>, 60),
      Event(<<"Boston Celtics", " at ", "New York Knicks">>, 15),
      Event(<<"Knicks Fan Night">>, 25),
      Event(<<"New York Knicks", " vs ", "Boston Celtics">>, 61) }

\* the events of an answer: event k gets the id k
Events(f) == [k \in DOMAIN f |-> [id |-> k] @@ f[k]]

EventLists == { Events(f) : f \in UNION { [1..n -> EventKinds] : n \in 0..MaxMatchGames } }

\* the list of the README, and a list of full team names
ReadmePreferred ==
    <<"Celtics", "Nets", "76ers", "Lakers", "Warriors", "Mavericks", "Bucks">>

FullNamePreferred ==
    <<"Boston Celtics", "Philadelphia 76ers", "Cleveland Cavaliers", "Miami Heat",
      "New York Knicks">>

PreferredConfigs == { <<>>, <<ReadmePreferred>>, <<FullNamePreferred>> }

InitMatchup ==
    /\ preferences \in {Profile(200, 400, 600, 20, TRUE, FALSE, "lower", TRUE)}
    /\ pc = "idle"
    /\ gameData = <<>>
    /\ gi = 1
    /\ recommendations = <<>>
    /\ scored = {}
    /\ outbox = <<>>
    /\ returned = <<>>
    /\ bestSeats = null
    /\ scoreArgs = null
    /\ scoreResult = <<>>
    /\ sentMail = <<>>
    /\ allScoredList = <<>>
    /\ IdleIO
    /\ IdleCompare
    /\ preferredOpponents \in PreferredConfigs
    /\ mpc = "start"
    /\ games = <<>>
    /\ upcomingGames = <<>>
    /\ mi = 1
    /\ gamesWithRatings = <<>>
    /\ labels = <<>>
    /\ htmlContent = <<>>
    /\ matchOutbox = <<>>
    /\ summary = <<>>
    /\ mreturned = <<>>
    /\ previous = {}

scoreVars == <<preferences, runVars, scoreArgs, scoreResult, compareVars, ioVars>>

\* getUpcomingGames resolves; zero games end the run, otherwise the games of
\* the next 60 days are kept
FetchUpcomingFrom(lists) ==
    /\ mpc = "start"
    /\ \E events \in lists :
         /\ games' = events
         /\ IF Len(events) = 0
            THEN mpc' = "done" /\ UNCHANGED upcomingGames
            ELSE mpc' = "rating" /\ upcomingGames' = SelectSeq(events, inWindow)
    /\ UNCHANGED <<scoreVars, previous, preferredOpponents, mi, gamesWithRatings, labels,
                   htmlContent, matchOutbox, summary, mreturned>>

\* faulty variant: the run also ends when no game is left after the filter
FetchUpcomingGames_endsOnEmptyWindow ==
    /\ mpc = "start"
    /\ \E events \in EventLists :
         /\ games' = events
         /\ upcomingGames' = SelectSeq(events, inWindow)
         /\ mpc' = IF Len(SelectSeq(events, inWindow)) = 0 THEN "done" ELSE "rating"
    /\ UNCHANGED <<scoreVars, previous, preferredOpponents, mi, gamesWithRatings, labels,
                   htmlContent, matchOutbox, summary, mreturned>>

FetchUpcomingGames == FetchUpcomingFrom(EventLists)

\* getUpcomingGames rejects: logged and thrown again
FetchUpcomingFails ==
    /\ mpc = "start"
    /\ mpc' = "failed"
    /\ UNCHANGED <<scoreVars, previous, preferredOpponents, games, upcomingGames, mi,
                   gamesWithRatings, labels, htmlContent, matchOutbox, summary,
                   mreturned>>

\* one pass of the loop over upcomingGames
RateGame ==
    /\ mpc = "rating"
    /\ mi <= Len(upcomingGames)
    /\ \E outcome \in FetchOutcomes :
         LET rated == rateGame(upcomingGames[mi], preferredOpponents, outcome)
         IN /\ gamesWithRatings' = Append(gamesWithRatings, rated)
            /\ labels' = Append(labels, logLine(rated))
    /\ mi' = mi + 1
    /\ UNCHANGED <<scoreVars, previous, preferredOpponents, mpc, games, upcomingGames,
                   htmlContent, matchOutbox, summary, mreturned>>

\* the sort in place, then the call of sendMatchupRecommendations
SortRatings ==
    /\ mpc = "rating"
    /\ mi > Len(upcomingGames)
    /\ gamesWithRatings' = sortByExcitement(gamesWithRatings)
    /\ mpc' = "html"
    /\ UNCHANGED <<scoreVars, previous, preferredOpponents, games, upcomingGames, mi, labels,
                   htmlContent, matchOutbox, summary, mreturned>>

RenderHTML ==
    /\ mpc = "html"
    /\ \E outcomes \in [DOMAIN gamesWithRatings -> FetchOutcomes] :
         htmlContent' = <<generateMatchupEmailHTML(gamesWithRatings, outcomes)>>
    /\ mpc' = "text"
    /\ UNCHANGED <<scoreVars, previous, preferredOpponents, games, upcomingGames, mi,
                   gamesWithRatings, labels, matchOutbox, summary, mreturned>>

\* the text body, then transporter.sendMail(mailOptions)
RenderTextAndSend ==
    /\ mpc = "text"
    /\ \E outcomes \in [DOMAIN gamesWithRatings -> FetchOutcomes] :
         matchOutbox' = Append(matchOutbox,
            [games |-> gamesWithRatings,
             html |-> htmlContent[1],
             text |-> generateMatchupEmailText(gamesWithRatings, outcomes)])
    /\ mpc' = "sending"
    /\ UNCHANGED <<scoreVars, previous, preferredOpponents, games, upcomingGames, mi,
                   gamesWithRatings, labels, htmlContent, summary, mreturned>>

\* sendMail resolves: logSummary, then the list is returned
MatchupSendResolves ==
    /\ mpc = "sending"
    /\ summary' = <<logSummary(gamesWithRatings)>>
    /\ mreturned' = <<gamesWithRatings>>
    /\ mpc' = "done"
    /\ UNCHANGED <<scoreVars, previous, preferredOpponents, games, upcomingGames, mi,
                   gamesWithRatings, labels, htmlContent, matchOutbox>>

\* sendMail rejects: thrown again by both catch blocks
MatchupSendRejects ==
    /\ mpc = "sending"
    /\ mpc' = "failed"
    /\ UNCHANGED <<scoreVars, previous, preferredOpponents, games, upcomingGames, mi,
                   gamesWithRatings, labels, htmlContent, matchOutbox, summary,
                   mreturned>>

NextMatchup ==
    \/ FetchUpcomingGames
    \/ FetchUpcomingFails
    \/ RateGame
    \/ SortRatings
    \/ RenderHTML
    \/ RenderTextAndSend
    \/ MatchupSendResolves
    \/ MatchupSendRejects

SpecMatchup == InitMatchup /\ [][NextMatchup]_vars

(***************************************************************************)
(* scheduleMonthly: the cron callback starts runMatchupRecommendations     *)
(* again; a run has only local state, the scheduler keeps prefs.           *)
(***************************************************************************)
MaxRerunGames == 2

RerunKinds ==
    { Event(<<"New York Knicks", " vs ", "Philadelphia 76ers">>, 20),
      Event(<<"New York Knicks", " vs ", "Cleveland Cavaliers">>, 30),
      Event(<<"New York Knicks", " vs ", "Miami Heat">>, 60),
      Event(<<"Knicks Fan Night">>, 25) }

RerunEventLists ==
    { Events(f) : f \in UNION { [1..n -> RerunKinds] : n \in 0..MaxRerunGames } }

FetchRerunGames == FetchUpcomingFrom(RerunEventLists)

\* the next trigger after a run ended; `previous` keeps what the runs so far
\* stored for each opponent
CronTrigger ==
    /\ mpc \in {"done", "failed"}
    /\ previous' = previous \cup
         { <<gamesWithRatings[k].opponent, gamesWithRatings[k].excitement>> :
             k \in DOMAIN gamesWithRatings }
    /\ mpc' = "start"
    /\ games' = <<>>
    /\ upcomingGames' = <<>>
    /\ mi' = 1
    /\ gamesWithRatings' = <<>>
    /\ labels' = <<>>
    /\ htmlContent' = <<>>
    /\ matchOutbox' = <<>>
    /\ summary' = <<>>
    /\ mreturned' = <<>>
    /\ UNCHANGED <<scoreVars, preferredOpponents>>

NextRerun ==
    \/ FetchRerunGames
    \/ FetchUpcomingFails
    \/ RateGame
    \/ SortRatings
    \/ RenderHTML
    \/ RenderTextAndSend
    \/ MatchupSendResolves
    \/ MatchupSendRejects
    \/ CronTrigger

SpecRerun == InitMatchup /\ [][NextRerun]_vars

(***************************************************************************)
(* The network side: TicketAPI and NBADataService on their own.  The       *)
(* scheduler and the selector stay idle.                                   *)
(***************************************************************************)
nonIOVars == <<preferences, runVars, scoreArgs, scoreResult, compareVars, matchVars>>

InitIO ==
    /\ preferences \in {Profile(200, 400, 600, 20, TRUE, FALSE, "lower", TRUE)}
    /\ pc = "idle"
    /\ gameData = <<>>
    /\ gi = 1
    /\ recommendations = <<>>
    /\ scored = {}
    /\ outbox = <<>>
    /\ returned = <<>>
    /\ bestSeats = null
    /\ scoreArgs = null
    /\ scoreResult = <<>>
    /\ sentMail = <<>>
    /\ allScoredList = <<>>
    /\ IdleCompare
    /\ IdleMatch
    /\ IdleIO

(***************************************************************************)
(* TicketAPI.getUpcomingRecommendations.                                   *)
(***************************************************************************)
MaxUpcoming == 6

daysAhead == 60

withinDaysAhead(game) == game.datetime_local <= daysAhead /\ game.datetime_local > 0

UpcomingKinds ==
    { [title |-> <<"New York Knicks", " vs ", "Boston Celtics">>,
       datetime_local |-> d, venue |-> [name |-> "Madison Square Garden"]] : d \in {10, 61} }

UpcomingLists ==
    { Events(f) : f \in UNION { [1..n -> UpcomingKinds] : n \in 0..MaxUpcoming } }

\* the answers of the two requests of getTicketsForEvent
EventAnswers == {"error", "noStats", "countZero", "countPositive"}
ListingAnswers == {"error", "noListings", "emptyListings", "twoListings"}

\* [threw, tickets]: the promise rejects, or resolves to the tickets
getTicketsForEvent(eventAnswer, listingAnswer) ==
    IF eventAnswer = "error" THEN [threw |-> TRUE, tickets |-> <<>>]
    ELSE IF eventAnswer = "countPositive"
    THEN IF listingAnswer = "error" THEN [threw |-> TRUE, tickets |-> <<>>]
         ELSE IF listingAnswer = "twoListings"
         THEN [threw |-> FALSE, tickets |-> <<[listing |-> 1], [listing |-> 2]>>]
         ELSE [threw |-> FALSE, tickets |-> <<>>]
    ELSE [threw |-> FALSE, tickets |-> <<>>]

\* faulty variant: no limit on the games queried
firstFive_all(list) == list

\* upcomingGames.slice(0, 5)
firstFive(list) == SubSeq(list, 1, IF Len(list) < 5 THEN Len(list) ELSE 5)

CallUpcomingRecommendations ==
    /\ urPc = "idle"
    /\ \E list \in UpcomingLists : urGames' = list
    /\ urPc' = "loop"
    /\ UNCHANGED <<urIdx, urRecs, urQueried, nonIOVars, teamInfoVars, requestVars>>

\* getUpcomingGames rejects: nothing catches it
UpcomingGamesFails ==
    /\ urPc = "idle"
    /\ urPc' = "rejected"
    /\ UNCHANGED <<urGames, urIdx, urRecs, urQueried, nonIOVars, teamInfoVars, requestVars>>

\* one pass of the loop body
QueryTickets ==
    /\ urPc = "loop"
    /\ urIdx <= Len(firstFive(SelectSeq(urGames, withinDaysAhead)))
    /\ \E eventAnswer \in EventAnswers, listingAnswer \in ListingAnswers :
         LET game == firstFive(SelectSeq(urGames, withinDaysAhead))[urIdx]
             result == getTicketsForEvent(eventAnswer, listingAnswer)
         IN /\ urQueried' = Append(urQueried, [id |-> game.id, threw |-> result.threw])
            /\ urRecs' = IF ~result.threw /\ Len(result.tickets) > 0
                         THEN Append(urRecs,
                                [game |-> [id |-> game.id, title |-> game.title,
                                           date |-> game.datetime_local,
                                           opponent |-> extractOpponent(game.title),
                                           venue |-> game.venue.name],
                                 tickets |-> result.tickets])
                         ELSE urRecs
    /\ urIdx' = urIdx + 1
    /\ UNCHANGED <<urPc, urGames, nonIOVars, teamInfoVars, requestVars>>

ReturnUpcomingRecommendations ==
    /\ urPc = "loop"
    /\ urIdx > Len(firstFive(SelectSeq(urGames, withinDaysAhead)))
    /\ urPc' = "returned"
    /\ UNCHANGED <<urGames, urIdx, urRecs, urQueried, nonIOVars, teamInfoVars, requestVars>>

NextUpcoming ==
    \/ CallUpcomingRecommendations
    \/ UpcomingGamesFails
    \/ QueryTickets
    \/ ReturnUpcomingRecommendations

SpecUpcoming == InitIO /\ [][NextUpcoming]_vars

(***************************************************************************)
(* The two HTTPS requests.  The body arrives in chunks; `data` is the      *)
(* sequence of the chunks received so far.  "team" stands for the member   *)
(* `"team": {...}` of an object, "<" for the start of a non-JSON body.     *)
(***************************************************************************)
MaxChunks == 3

Chunks == {"{", "team", "}", "<"}

\* JSON.parse(data): throws unless the chunks join to an object
parseJSON(data) ==
    IF data = <<"{", "}">> THEN [ok |-> TRUE, team |-> FALSE]
    ELSE IF data = <<"{", "team", "}">> THEN [ok |-> TRUE, team |-> TRUE]
    ELSE [ok |-> FALSE, team |-> FALSE]

\* faulty variant: a later call of resolve or reject replaces the value
settle_overwrite(current, value) == <<value>>

\* resolve(value) or reject(value) of a promise: only the first call counts
settle(current, value) == IF Len(current) = 0 THEN <<value>> ELSE current

(***************************************************************************)
(* TicketAPI.makeRequest.                                                  *)
(***************************************************************************)
\* req.end(): the request is sent
SendRequest ==
    /\ mrReq = "none"
    /\ mrReq' = "open"
    /\ UNCHANGED <<mrChunks, mrResult, nonIOVars, teamInfoVars, upcomingVars>>

\* res.on('data')
ReceiveChunk ==
    /\ mrReq = "open"
    /\ Len(mrChunks) < MaxChunks
    /\ \E chunk \in Chunks : mrChunks' = Append(mrChunks, chunk)
    /\ UNCHANGED <<mrReq, mrResult, nonIOVars, teamInfoVars, upcomingVars>>

\* res.on('end')
ResponseEnd ==
    /\ mrReq = "open"
    /\ mrReq' = "ended"
    /\ mrResult' = settle(mrResult,
                          IF parseJSON(mrChunks).ok
                          THEN [state |-> "resolved", value |-> mrChunks]
                          ELSE [state |-> "rejected",
                                value |-> <<"Failed to parse response">>])
    /\ UNCHANGED <<mrChunks, nonIOVars, teamInfoVars, upcomingVars>>

\* req.on('error')
RequestError ==
    /\ mrReq = "open"
    /\ mrChunks = <<>>
    /\ mrReq' = "failed"
    /\ mrResult' = settle(mrResult, [state |-> "rejected", value |-> <<"request error">>])
    /\ UNCHANGED <<mrChunks, nonIOVars, teamInfoVars, upcomingVars>>

\* the remote end keeps the connection and sends nothing more
ServerGoesSilent ==
    /\ mrReq = "open"
    /\ mrReq' = "silent"
    /\ UNCHANGED <<mrChunks, mrResult, nonIOVars, teamInfoVars, upcomingVars>>

NextRequest ==
    \/ SendRequest
    \/ ReceiveChunk
    \/ ResponseEnd
    \/ RequestError
    \/ ServerGoesSilent

SpecRequest == InitIO /\ [][NextRequest]_vars

(***************************************************************************)
(* NBADataService.getTeamInfo and fetchESPNTeamData as steps.              *)
(***************************************************************************)
TeamNames == DOMAIN teamIds \cup {"Knicks Fan Night", "Celtics"}

\* getTeamInfo(teamName) up to the await
CallGetTeamInfo ==
    /\ tiPc = "idle"
    /\ \E teamName \in TeamNames :
         /\ tiTeam' = teamName
         /\ IF getESPNTeamId(teamName) = ""
            THEN /\ tiResult' = <<getFallbackTeamData(teamName)>>
                 /\ tiPc' = "resolved"
                 /\ UNCHANGED espnReq
            ELSE /\ espnReq' = "open"
                 /\ tiPc' = "fetching"
                 /\ UNCHANGED tiResult
    /\ UNCHANGED <<espnChunks, fetchResult, nonIOVars, requestVars, upcomingVars>>

EspnChunk ==
    /\ espnReq = "open"
    /\ Len(espnChunks) < MaxChunks
    /\ \E chunk \in Chunks : espnChunks' = Append(espnChunks, chunk)
    /\ UNCHANGED <<tiTeam, tiPc, espnReq, fetchResult, tiResult,
                   nonIOVars, requestVars, upcomingVars>>

EspnResponseEnd ==
    /\ espnReq = "open"
    /\ espnReq' = "ended"
    /\ fetchResult' = settle(fetchResult,
                             IF parseJSON(espnChunks).ok /\ parseJSON(espnChunks).team
                             THEN fetchESPNTeamData(getESPNTeamId(tiTeam), "team")
                             ELSE null)
    /\ UNCHANGED <<tiTeam, tiPc, espnChunks, tiResult, nonIOVars, requestVars, upcomingVars>>

EspnRequestError ==
    /\ espnReq = "open"
    /\ espnChunks = <<>>
    /\ espnReq' = "failed"
    /\ fetchResult' = settle(fetchResult, null)
    /\ UNCHANGED <<tiTeam, tiPc, espnChunks, tiResult, nonIOVars, requestVars, upcomingVars>>

EspnServerGoesSilent ==
    /\ espnReq = "open"
    /\ espnReq' = "silent"
    /\ UNCHANGED <<tiTeam, tiPc, espnChunks, fetchResult, tiResult,
                   nonIOVars, requestVars, upcomingVars>>

\* the callback of req.setTimeout(5000): the socket was idle for 5 seconds,
\* during the exchange or on the connection kept after the answer
EspnTimeout ==
    /\ espnReq \in {"open", "silent", "ended"}
    /\ espnReq' = "destroyed"
    /\ fetchResult' = settle(fetchResult, null)
    /\ UNCHANGED <<tiTeam, tiPc, espnChunks, tiResult, nonIOVars, requestVars, upcomingVars>>

\* the 'error' that req.destroy() raises on a request still under way
EspnErrorAfterDestroy ==
    /\ espnReq = "destroyed"
    /\ espnReq' = "closed"
    /\ fetchResult' = settle(fetchResult, null)
    /\ UNCHANGED <<tiTeam, tiPc, espnChunks, tiResult, nonIOVars, requestVars, upcomingVars>>

\* getTeamInfo after the await
GetTeamInfoResumes ==
    /\ tiPc = "fetching"
    /\ Len(fetchResult) = 1
    /\ tiResult' = <<IF fetchResult[1] # null THEN fetchResult[1]
                     ELSE getFallbackTeamData(tiTeam)>>
    /\ tiPc' = "resolved"
    /\ UNCHANGED <<tiTeam, espnReq, espnChunks, fetchResult,
                   nonIOVars, requestVars, upcomingVars>>

NextTeamInfo ==
    \/ CallGetTeamInfo
    \/ EspnChunk
    \/ EspnResponseEnd
    \/ EspnRequestError
    \/ EspnServerGoesSilent
    \/ EspnTimeout
    \/ EspnErrorAfterDestroy
    \/ GetTeamInfoResumes

\* a socket with a pending exchange either carries data or reaches its idle
\* timeout, and a settled promise resumes its awaiter
SpecTeamInfo == InitIO /\ [][NextTeamInfo]_vars /\ WF_vars(NextTeamInfo)

(***************************************************************************)
(* Two calls of scoreSection: the second with another section or with      *)
(* another avoid_corners flag, everything else the same.                   *)
(***************************************************************************)
CompareProfiles ==
    { Profile(200, 400, 600, 20, TRUE, aisle, elev, avoid) :
        aisle \in BOOLEAN,
        elev \in {"courtside", "lower", "bridge", "upper"},
        avoid \in BOOLEAN }

CompareRows == {8, 21}

ComparePrices == {295, 400, 401}

CompareArgsInputs ==
    { [section |-> sec,
       seatInfo |-> Kind(sec, row, <<1, 2>>, price, aisle),
       sectionType |-> msgSeats[t]] :
        sec \in ScoreSections, row \in CompareRows, price \in ComparePrices,
        aisle \in BOOLEAN, t \in 1..Len(msgSeats) }

OtherArgsOf(args, prefs) ==
    { [section |-> sec,
       seatInfo |-> [args.seatInfo EXCEPT !.section = sec],
       sectionType |-> args.sectionType,
       prefs |-> [prefs EXCEPT !.view.avoid_corners = avoid]] :
        sec \in ScoreSections, avoid \in BOOLEAN }

InitCompare ==
    /\ preferences \in CompareProfiles
    /\ pc = "compare"
    /\ gameData = <<>>
    /\ gi = 1
    /\ recommendations = <<>>
    /\ scored = {}
    /\ outbox = <<>>
    /\ returned = <<>>
    /\ bestSeats = null
    /\ scoreArgs \in CompareArgsInputs
    /\ scoreResult = <<>>
    /\ sentMail = <<>>
    /\ allScoredList = <<>>
    /\ IdleIO
    /\ otherArgs \in OtherArgsOf(scoreArgs, preferences)
    /\ otherResult = <<>>
    /\ IdleMatch

CompareFirst ==
    /\ pc = "compare"
    /\ scoreResult = <<>>
    /\ scoreResult' = <<scoreSection(scoreArgs.section, scoreArgs.seatInfo,
                                     scoreArgs.sectionType, preferences)>>
    /\ UNCHANGED <<preferences, scoreArgs, runVars, compareVars, matchVars, ioVars>>

CompareSecond ==
    /\ pc = "compare"
    /\ Len(scoreResult) = 1
    /\ otherResult = <<>>
    /\ otherResult' = <<scoreSection(otherArgs.section, otherArgs.seatInfo,
                                     otherArgs.sectionType, otherArgs.prefs)>>
    /\ UNCHANGED <<preferences, scoreArgs, scoreResult, runVars, otherArgs, matchVars,
                   ioVars>>

NextCompare == CompareFirst \/ CompareSecond

SpecCompare == InitCompare /\ [][NextCompare]_vars

(***************************************************************************)
(* Properties of scoreSection (checked under SpecScore).                   *)
(***************************************************************************)
scoreCalled == Len(scoreResult) = 1

argPrice == scoreArgs.seatInfo.price
argRow == scoreArgs.seatInfo.row
argMin == preferences.budget.min_per_seat
argMax == preferences.budget.max_per_seat

\* the order courtside(4) > lower(3) > bridge(2) > upper(1)
ElevationRank(e) ==
    CASE e = "courtside" -> 4
      [] e = "lower" -> 3
      [] e = "bridge" -> 2
      [] e = "upper" -> 1

PassesPriceGate == argMin <= argPrice /\ argPrice <= argMax

MeetsElevation ==
    ElevationRank(scoreArgs.sectionType.elevation)
        >= ElevationRank(preferences.view.min_elevation)

Ind(b) == IF b THEN 1 ELSE 0

\* C1: a price strictly above max_per_seat or strictly below min_per_seat gives
\* exactly 0, whatever the section, tier, row and aisle flag; a price equal to
\* a bound (and inside the range) is not rejected by the price gate, so with a
\* sufficient elevation the score is not 0.
C1_PriceGate ==
    scoreCalled =>
        /\ (argPrice > argMax \/ argPrice < argMin) => scoreResult[1] = 0
        /\ ( /\ argPrice \in {argMin, argMax}
             /\ PassesPriceGate
             /\ MeetsElevation ) => scoreResult[1] # 0

C1_Witness ==
    /\ scoreCalled
    /\ argPrice = argMax + 1
    /\ MeetsElevation
    /\ scoreArgs.section \in scoreArgs.sectionType.center
    /\ scoreResult[1] = 0

\* C2: for a listing that passes the price gate the score is 0 exactly when
\* the rank of the tier's elevation is below the rank of min_elevation.
C2_ElevationGate ==
    (scoreCalled /\ PassesPriceGate) =>
        (scoreResult[1] = 0 <=> ~MeetsElevation)

C2_Witness ==
    /\ scoreCalled
    /\ PassesPriceGate
    /\ scoreArgs.sectionType.elevation = "bridge"
    /\ preferences.view.min_elevation = "lower"
    /\ scoreResult[1] = 0

\* C3: for every listing (row any integer) that passes both gates the score is
\* 100 + 30*[center] - 40*[avoid_corners and corner] + 20*[row <= max_row]
\* + 15*[aisle preference and isAisle] + 20*(1 - price/max_per_seat), unclamped
\* (both sides times max_per_seat).
C3_Formula ==
    (scoreCalled /\ PassesPriceGate /\ MeetsElevation) =>
        scoreResult[1] =
            ( 100
              + 30 * Ind(scoreArgs.section \in scoreArgs.sectionType.center)
              - 40 * Ind(preferences.view.avoid_corners
                         /\ scoreArgs.section \in scoreArgs.sectionType.corners)
              + 20 * Ind(argRow <= preferences.location.max_row)
              + 15 * Ind(preferences.location.aisle_seats /\ scoreArgs.seatInfo.isAisle)
            ) * argMax
            + 20 * (argMax - argPrice)

\* C4: with 0 < min_per_seat <= max_per_seat, a listing that passes both gates
\* has a score strictly greater than 0.
C4_Positive ==
    ( /\ scoreCalled
      /\ 0 < argMin /\ argMin <= argMax
      /\ PassesPriceGate
      /\ MeetsElevation ) => scoreResult[1] > 0

\* the lowest case: a corner section under avoid_corners, no row or aisle
\* bonus, the price at the ceiling
C4_Witness ==
    /\ scoreCalled
    /\ 0 < argMin /\ argMin <= argMax
    /\ argPrice = argMax
    /\ MeetsElevation
    /\ preferences.view.avoid_corners
    /\ scoreArgs.section \in scoreArgs.sectionType.corners
    /\ argRow > preferences.location.max_row
    /\ scoreResult[1] = 60 * argMax

(***************************************************************************)
(* Properties of runRecommendations (checked under Spec).                  *)
(***************************************************************************)
Range(seq) == { seq[i] : i \in DOMAIN seq }

\* the recommendation list being built, handed to the email service, returned
OutputLists == {recommendations} \cup Range(outbox) \cup Range(returned)

Entries == UNION { Range(l) : l \in OutputLists }

InputTickets(e) ==
    gameData[CHOOSE i \in DOMAIN gameData : gameData[i].game.id = e.game.id].tickets

ListingIds(seats) == { seats[k].listingId : k \in DOMAIN seats }

PosIn(tickets, id) == CHOOSE k \in DOMAIN tickets : tickets[k].listingId = id

InNoTier(section) == \A i \in DOMAIN msgSeats : section \notin msgSeats[i].sections

TierOf(section) ==
    msgSeats[CHOOSE i \in DOMAIN msgSeats : section \in msgSeats[i].sections]

ScoreOf(t) == scoreSection(t.section, t, TierOf(t.section), preferences)

ZeroScored(t) == ~InNoTier(t.section) /\ ScoreOf(t) = 0

PreFilterRejects(t) ==
    \/ preferences.location.together /\ Len(t.seats) < 2
    \/ t.price * Len(t.seats) > preferences.budget.total_max

\* C5: every recommendation of every event has price * seats.length <=
\* budget.total_max and at least 2 seats when location.together is set.
C5_PreFilterRespected ==
    \A e \in Entries : \A k \in DOMAIN e.bestSeats :
        ~PreFilterRejects(e.bestSeats[k])

\* C6: a listing whose score is 0 is in no event's ranked recommendations and
\* is never the result of findBestSeats; every recommendation has a score # 0.
C6_NoZeroScore ==
    /\ \A e \in Entries :
         /\ \A k \in DOMAIN e.bestSeats : e.bestSeats[k].score # 0
         /\ \A t \in Range(InputTickets(e)) :
              ZeroScored(t) => t.listingId \notin ListingIds(e.bestSeats)
    /\ bestSeats # null =>
         /\ bestSeats.score # 0
         /\ \A i \in DOMAIN gameData : \A t \in Range(gameData[i].tickets) :
              ZeroScored(t) => t.listingId # bestSeats.listingId

\* scenario B next to a listing that is recommended
C6_Witness ==
    /\ pc = "done"
    /\ preferences.view.min_elevation = "lower"
    /\ \E l \in Range(returned) : \E e \in Range(l) :
         /\ \E t \in Range(InputTickets(e)) : t.section = "5" /\ ZeroScored(t)
         /\ Len(e.bestSeats) > 0

\* C7: the ranked list of an event is ordered by score descending, and two
\* recommendations of equal score are in the order of the input ticket list.
C7_StableDescending ==
    \A e \in Entries : \A i, j \in DOMAIN e.bestSeats :
        i < j =>
          /\ e.bestSeats[i].score >= e.bestSeats[j].score
          /\ e.bestSeats[i].score = e.bestSeats[j].score =>
               PosIn(InputTickets(e), e.bestSeats[i].listingId)
                 < PosIn(InputTickets(e), e.bestSeats[j].listingId)

\* a list with a tie between two different sections and a strict descent
C7_Witness ==
    \E l \in Range(returned) : \E e \in Range(l) :
        /\ \E i, j \in DOMAIN e.bestSeats :
             /\ i < j
             /\ e.bestSeats[i].score = e.bestSeats[j].score
             /\ e.bestSeats[i].section # e.bestSeats[j].section
        /\ \E i, j \in DOMAIN e.bestSeats :
             /\ i < j
             /\ e.bestSeats[i].score > e.bestSeats[j].score
             /\ PosIn(InputTickets(e), e.bestSeats[i].listingId)
                  > PosIn(InputTickets(e), e.bestSeats[j].listingId)

\* the listings the ranking step keeps: section in a tier, score not 0
Surviving(tickets) ==
    { t \in Range(tickets) : ~InNoTier(t.section) /\ ScoreOf(t) # 0 }

Min(a, b) == IF a < b THEN a ELSE b

\* C8: bestSeats has at most 5 entries, namely the first min(5, n) of the
\* event's n surviving listings in score order: every surviving listing left
\* out ranks behind every listing kept.
C8_TopFive ==
    \A e \in Entries :
        LET tickets == InputTickets(e)
            kept == ListingIds(e.bestSeats)
        IN /\ Len(e.bestSeats) <= 5
           /\ Len(e.bestSeats) = Min(5, Cardinality(Surviving(tickets)))
           /\ Cardinality(kept) = Len(e.bestSeats)
           /\ kept \subseteq { t.listingId : t \in Surviving(tickets) }
           /\ \A t \in Surviving(tickets) : \A k \in DOMAIN e.bestSeats :
                t.listingId \notin kept =>
                  \/ e.bestSeats[k].score > ScoreOf(t)
                  \/ /\ e.bestSeats[k].score = ScoreOf(t)
                     /\ PosIn(tickets, e.bestSeats[k].listingId)
                          < PosIn(tickets, t.listingId)

C8_Witness ==
    \E l \in Range(returned) : \E e \in Range(l) :
        /\ Cardinality(Surviving(InputTickets(e))) = 6
        /\ Len(e.bestSeats) = 5

\* C9: a listing whose section is in no tier is never scored, is in no ranked
\* list and is not the findBestSeats result; the other listings of its event
\* are still processed and the run does not fail in the loop.
C9_UnknownSectionExcluded ==
    /\ \A i \in DOMAIN gameData : \A t \in Range(gameData[i].tickets) :
         InNoTier(t.section) =>
           /\ <<gameData[i].game.id, t.listingId>> \notin scored
           /\ \A e \in Entries : t.listingId \notin ListingIds(e.bestSeats)
           /\ bestSeats # null => bestSeats.listingId # t.listingId
    /\ \A i \in DOMAIN gameData : \A t \in Range(gameData[i].tickets) :
         (i < gi /\ ~InNoTier(t.section) /\ ~PreFilterRejects(t)) =>
           <<gameData[i].game.id, t.listingId>> \in scored
    /\ (pc = "failed" /\ gameData # <<>>) => outbox # <<>>

\* an unknown section first, a recommended listing behind it
C9_Witness ==
    /\ pc = "done"
    /\ \E l \in Range(returned) : \E e \in Range(l) :
         /\ InNoTier(InputTickets(e)[1].section)
         /\ Len(InputTickets(e)) >= 2
         /\ InputTickets(e)[2].listingId \in ListingIds(e.bestSeats)

HasSurvivor(d) ==
    \E t \in Range(d.tickets) :
        ~PreFilterRejects(t) /\ ~InNoTier(t.section) /\ ScoreOf(t) # 0

\* C10: every entry of the list built, sent and returned has a non-empty
\* bestSeats; the list holds exactly the analysed events that have a surviving
\* listing, in input order; an event without one is left out and causes no
\* failure.
C10_EmptyEventsOmitted ==
    /\ \A e \in Entries : Len(e.bestSeats) > 0
    /\ \A l \in OutputLists :
         [k \in DOMAIN l |-> l[k].game]
           = [k \in DOMAIN SelectSeq(SubSeq(gameData, 1, gi - 1), HasSurvivor) |->
                SelectSeq(SubSeq(gameData, 1, gi - 1), HasSurvivor)[k].game]
    /\ (pc = "failed" /\ gameData # <<>>) => outbox # <<>>

\* three events, the middle one without a surviving listing
C10_Witness ==
    /\ pc = "done"
    /\ Len(gameData) = 3
    /\ ~HasSurvivor(gameData[2])
    /\ \E l \in Range(returned) :
         /\ l \in Range(outbox)
         /\ Len(l) = 2
         /\ l[1].game.id = gameData[1].game.id
         /\ l[2].game.id = gameData[3].game.id

(***************************************************************************)
(* The seating catalog (checked under SpecScore).                          *)
(***************************************************************************)
TiersWith(section) == { i \in DOMAIN msgSeats : section \in msgSeats[i].sections }

CatalogSections == UNION { msgSeats[i].sections : i \in DOMAIN msgSeats }

\* the scan over the tiers taken from the last tier to the first
RECURSIVE scanTiersBackward(_, _)
scanTiersBackward(section, i) ==
    IF i < 1 THEN null
    ELSE IF section \in msgSeats[i].sections THEN msgSeats[i]
    ELSE scanTiersBackward(section, i - 1)

\* C25: in the catalog every section is in at most one tier, every tier's
\* center and corner sets are subsets of its sections and disjoint from each
\* other; so the tier found for the section of a call does not depend on the
\* direction of the scan.
C25_CatalogUnambiguous ==
    /\ \A i, j \in DOMAIN msgSeats :
         i # j => msgSeats[i].sections \cap msgSeats[j].sections = {}
    /\ \A i \in DOMAIN msgSeats :
         /\ msgSeats[i].center \subseteq msgSeats[i].sections
         /\ msgSeats[i].corners \subseteq msgSeats[i].sections
         /\ msgSeats[i].center \cap msgSeats[i].corners = {}
    /\ Cardinality(TiersWith(scoreArgs.section)) <= 1
    /\ getSectionType(scoreArgs.section)
         = scanTiersBackward(scoreArgs.section, Len(msgSeats))

\* a call for a center section with the tier the catalog gives it
C25_Witness ==
    /\ scoreCalled
    /\ scoreArgs.section = "227"
    /\ TiersWith(scoreArgs.section) = {4}
    /\ scoreArgs.sectionType = getSectionType(scoreArgs.section)
    /\ Cardinality(CatalogSections) = 4 + 27 + 9 + 31

(***************************************************************************)
(* Frame, empty runs and the findBestSeats gate (checked under Spec).      *)
(***************************************************************************)
ListingFields == {"listingId", "section", "row", "seats", "price", "isAisle"}

\* r is a copy of the listing t with the three derived fields and no other
CopyOf(r, t) ==
    /\ DOMAIN t = ListingFields
    /\ r = [score |-> r.score, totalCost |-> t.price * Len(t.seats),
            elevation |-> TierOf(t.section).elevation] @@ t

CopiesOnly ==
    /\ \A e \in Entries : \A k \in DOMAIN e.bestSeats :
         \E t \in Range(InputTickets(e)) : CopyOf(e.bestSeats[k], t)
    /\ bestSeats # null =>
         \E i \in DOMAIN gameData : \E t \in Range(gameData[i].tickets) :
            CopyOf(bestSeats, t)

\* C26: no step of a run changes the preference profile or, once fetched, the
\* input ticket lists (elements and order); every recommendation and the
\* findBestSeats result is a copy of its listing extended with score,
\* totalCost = price * seats.length and elevation, the listing itself keeping
\* its own fields only.
C26_Pure ==
    /\ []CopiesOnly
    /\ [][ /\ preferences' = preferences
           /\ pc # "start" => gameData' = gameData ]_vars

C26_Witness ==
    /\ pc = "done"
    /\ bestSeats # null
    /\ \E l \in Range(returned) : \E e \in Range(l) :
         /\ Len(e.bestSeats) >= 2
         /\ e.bestSeats[1].totalCost = 590

NoEventSurvives == \A i \in DOMAIN gameData : ~HasSurvivor(gameData[i])

\* C27: a run whose fetched events have no surviving listing (or that
\* fetched no event) does not fail and hands nothing to the email service:
\* its list stays empty up to the return; in every run sendRecommendations is
\* called at most once and never with an empty list.
C27_EmptyRunSendsNothing ==
    /\ (pc # "start" /\ pc # "failed" /\ NoEventSurvives) =>
         /\ pc \in {"loop", "done"}
         /\ recommendations = <<>>
         /\ outbox = <<>> /\ sentMail = <<>> /\ returned = <<>>
    /\ (pc = "failed" /\ NoEventSurvives) => gameData = <<>>
    /\ Len(outbox) <= 1
    /\ \A m \in DOMAIN outbox : Len(outbox[m]) > 0

C27_Witness ==
    /\ pc = "done"
    /\ Len(gameData) = 2
    /\ NoEventSurvives
    /\ \E t \in Range(gameData[1].tickets) : ~InNoTier(t.section) /\ ScoreOf(t) > 0
    /\ outbox = <<>>

\* the event analysed last
LastEvent == gameData[gi - 1]

\* C28: the event analysed last is in the recommendation list exactly when
\* findBestSeats returned a listing for it; then the ranked list before
\* truncation holds that listing with the same score and starts with a score
\* at least as high; when findBestSeats returned null the event is left out,
\* also when a listing of it scores above 0.
C28_GateIsFindBestSeats ==
    (pc # "start" /\ gi > 1) =>
        /\ (\E k \in DOMAIN recommendations :
                recommendations[k].game.id = LastEvent.game.id)
             <=> bestSeats # null
        /\ bestSeats # null =>
             /\ \E k \in DOMAIN allScoredList :
                  /\ allScoredList[k].listingId = bestSeats.listingId
                  /\ allScoredList[k].score = bestSeats.score
             /\ allScoredList[1].score >= bestSeats.score
             /\ recommendations[Len(recommendations)].bestSeats
                  = SubSeq(allScoredList, 1, Min(5, Len(allScoredList)))
        /\ bestSeats = null => allScoredList = <<>>

C28_Witness ==
    /\ pc = "done"
    /\ gi > 1
    /\ bestSeats = null
    /\ \E t \in Range(LastEvent.tickets) : ~InNoTier(t.section) /\ ScoreOf(t) > 0
    /\ \A k \in DOMAIN recommendations :
         recommendations[k].game.id # LastEvent.game.id
    /\ Len(recommendations) = 1

(***************************************************************************)
(* Relations between two scores (checked under SpecCompare).               *)
(***************************************************************************)
bothCalled == Len(scoreResult) = 1 /\ Len(otherResult) = 1

InCenter(args) == args.section \in args.sectionType.center

InCorners(args) == args.section \in args.sectionType.corners

\* C18: two listings of one tier that pass both gates and differ only in the
\* section, one in the tier's center set and the other in neither its center
\* nor its corner set: the center listing scores exactly 30 more
\* (30 * max_per_seat in the scaled unit).
C18_CenterPlus30 ==
    ( /\ bothCalled
      /\ otherArgs.prefs = preferences
      /\ PassesPriceGate /\ MeetsElevation
      /\ InCenter(scoreArgs)
      /\ ~InCenter(otherArgs) /\ ~InCorners(otherArgs) )
    => scoreResult[1] = otherResult[1] + 30 * argMax

C18_Witness ==
    /\ bothCalled
    /\ otherArgs.prefs = preferences
    /\ PassesPriceGate /\ MeetsElevation
    /\ scoreArgs.section = "109" /\ scoreArgs.sectionType.elevation = "lower"
    /\ otherArgs.section = "104"
    /\ scoreResult[1] = otherResult[1] + 12000

\* C19: for a listing that passes both gates, the score under avoid_corners
\* = true is exactly 40 below the score of the same listing under the same
\* profile with avoid_corners = false when its section is in the tier's corner
\* set, and equal to it otherwise.
C19_CornerMinus40 ==
    ( /\ bothCalled
      /\ otherArgs.section = scoreArgs.section
      /\ preferences.view.avoid_corners
      /\ ~otherArgs.prefs.view.avoid_corners
      /\ PassesPriceGate /\ MeetsElevation )
    => /\ InCorners(scoreArgs) => scoreResult[1] = otherResult[1] - 40 * argMax
       /\ ~InCorners(scoreArgs) => scoreResult[1] = otherResult[1]

C19_Witness ==
    /\ bothCalled
    /\ otherArgs.section = scoreArgs.section
    /\ preferences.view.avoid_corners
    /\ ~otherArgs.prefs.view.avoid_corners
    /\ PassesPriceGate /\ MeetsElevation
    /\ scoreArgs.section = "101" /\ scoreArgs.sectionType.elevation = "lower"
    /\ scoreResult[1] = otherResult[1] - 16000
    /\ scoreResult[1] > 0

(***************************************************************************)
(* Scenario A: the listing of section 109 (checked under Spec).            *)
(***************************************************************************)
ProfileA == Profile(200, 400, 600, 20, TRUE, FALSE, "lower", TRUE)

IsListingA(t) ==
    /\ t.section = "109"
    /\ t.row = 8
    /\ t.seats = <<5, 6>>
    /\ t.price = 295
    /\ ~t.isAisle

\* the ranked entries of listing A under profile A
RankedA ==
    IF preferences = ProfileA
    THEN { t \in UNION { Range(e.bestSeats) : e \in Entries } : IsListingA(t) }
    ELSE {}

\* C17 (as stated): under profile A the listing {109, row 8, seats 5 and 6,
\* price 295, not aisle} is in the lower tier, in neither its center nor its
\* corner set, and scores 125.25 (50100 / 400).
C17_AsStated ==
    \A t \in RankedA :
        /\ getSectionType(t.section).elevation = "lower"
        /\ t.section \notin getSectionType(t.section).center
        /\ t.section \notin getSectionType(t.section).corners
        /\ t.score = 50100

\* C17 (amended): under profile A that listing is in the lower tier, in its
\* center set and not in its corner set, and scores
\* 100 + 30 + 20 + (1 - 295/400) * 20 = 155.25 (62100 / 400).
C17_ScenarioA ==
    \A t \in RankedA :
        /\ getSectionType(t.section).elevation = "lower"
        /\ t.elevation = "lower"
        /\ t.section \in getSectionType(t.section).center
        /\ t.section \notin getSectionType(t.section).corners
        /\ t.score = 62100
        /\ t.score = (100 + 30 + 20) * 400 + (400 - 295) * 20

C17_Witness ==
    /\ Len(returned) = 1
    /\ \E e \in Range(returned[1]) : \E t \in Range(e.bestSeats) : t \in RankedA

(***************************************************************************)
(* Properties of the seat-recommendation mail (checked under Spec).        *)
(***************************************************************************)
\* what a body shows for event k of the list recs
ShowsTopThree(body, recs) ==
    /\ Len(body) = Len(recs)
    /\ \A k \in DOMAIN recs :
         LET shown == body[k].seats
             ranked == recs[k].bestSeats
         IN /\ Len(shown) <= 3
            /\ Len(shown) = Min(3, Len(ranked))
            /\ \A i \in DOMAIN shown :
                 /\ shown[i].seat = ranked[i]
                 /\ (shown[i].badge = "BEST MATCH") <=> (i = 1)

\* C20: the html and the text body of every seat mail show, for every event,
\* at most 3 seats: the first min(3, n) entries of its bestSeats in the same
\* order, the first one (and only it) labelled best match; bestSeats itself
\* keeps up to 5 entries.
C20_EmailTopThree ==
    \A m \in DOMAIN sentMail :
        /\ ShowsTopThree(sentMail[m].html, outbox[m])
        /\ ShowsTopThree(sentMail[m].text, outbox[m])

C20_Witness ==
    \E m \in DOMAIN sentMail :
        /\ Len(outbox[m]) = 1
        /\ Len(outbox[m][1].bestSeats) = 5
        /\ Len(sentMail[m].html[1].seats) = 3
        /\ Len(sentMail[m].text[1].seats) = 3
        /\ sentMail[m].html[1].seats[2].badge = "#2"
        /\ sentMail[m].text[1].seats[3].badge = "#3"

(***************************************************************************)
(* Properties of the matchup run (checked under SpecMatchup).              *)
(***************************************************************************)
Rated == Range(gamesWithRatings)

\* the base value the stored excitement was computed from
BaseOf(g) == IF g.opponentInfo = null THEN 5 ELSE g.opponentInfo.excitement

Configured(opponent) ==
    /\ Len(preferredOpponents) = 1
    /\ opponent \in Range(preferredOpponents[1])

IdsOf(list) == { list[k].id : k \in DOMAIN list }

\* C11: for every rated game with base excitement b (in 1..10) the stored
\* excitement is min(b + 1, 10) when the opponent is in preferred_opponents
\* and b otherwise; so it lies in 1..10, a preferred opponent of base 10
\* stays at 10 and one of base 9 gets 10, which is in the must-see group.
C11_BoostCapped ==
    /\ \A g \in Rated :
         /\ BaseOf(g) \in 1..10
         /\ g.isPreferred <=> Configured(g.opponent)
         /\ g.isPreferred => g.excitement = Min(BaseOf(g) + 1, 10)
         /\ ~g.isPreferred => g.excitement = BaseOf(g)
         /\ g.excitement \in 1..10
         /\ (g.isPreferred /\ BaseOf(g) = 10) => g.excitement = 10
         /\ (g.isPreferred /\ BaseOf(g) = 9) => g.excitement = 10
    /\ Len(summary) = 1 =>
         \A g \in Rated :
            (g.isPreferred /\ BaseOf(g) >= 9) => g.id \in IdsOf(summary[1].mustSee)

C11_Witness ==
    /\ Len(summary) = 1
    /\ \E g \in Rated : g.isPreferred /\ BaseOf(g) = 10 /\ g.excitement = 10
    /\ \E g \in Rated : g.isPreferred /\ BaseOf(g) = 9 /\ g.excitement = 10
    /\ \E g \in Rated : ~g.isPreferred /\ g.excitement = BaseOf(g)

\* C12: a game whose team lookup gave no data is rated all the same, from
\* base 5: stored excitement 5 when the opponent is not preferred (6 when it
\* is), logged without a fire mark and listed in the standard group; every
\* upcoming game gets its rating and the run fails only in the fetch of the
\* games or in the send.
C12_NoDataDefaultsToFive ==
    /\ \A g \in Rated :
         g.opponentInfo = null =>
            /\ g.isPreferred => g.excitement = 6
            /\ ~g.isPreferred =>
                 /\ g.excitement = 5
                 /\ \A k \in DOMAIN labels :
                      labels[k].opponent = g.opponent => labels[k].label = ""
                 /\ Len(summary) = 1 => g.id \in IdsOf(summary[1].standard)
    /\ mpc = "rating" => Len(gamesWithRatings) = mi - 1
    /\ mpc \in {"html", "text", "sending"} =>
         IdsOf(gamesWithRatings) = IdsOf(upcomingGames)
    /\ mpc = "failed" => Len(games) = 0 \/ Len(matchOutbox) = 1

C12_Witness ==
    /\ Len(summary) = 1
    /\ \E g \in Rated :
         /\ g.opponent = "Knicks Fan Night"
         /\ g.opponentInfo = null /\ ~g.isPreferred /\ g.excitement = 5
    /\ \E g \in Rated :
         /\ g.opponent = "New York Knicks"
         /\ g.opponentInfo = null /\ ~g.isPreferred /\ g.excitement = 5

\* the lists handed to sendMatchupRecommendations and returned
RatedLists == Range(mreturned) \cup { matchOutbox[m].games : m \in DOMAIN matchOutbox }

\* C13: the list sent and returned holds the upcoming games ordered by stored
\* excitement descending, games of equal excitement in fetch order (event ids
\* count the fetched events); the returned list is the one that was sent.
C13_SortedByExcitement ==
    /\ \A l \in RatedLists :
         /\ Len(l) = Len(upcomingGames)
         /\ IdsOf(l) = IdsOf(upcomingGames)
         /\ \A i, j \in DOMAIN l :
              i < j =>
                /\ l[i].excitement >= l[j].excitement
                /\ l[i].excitement = l[j].excitement => l[i].id < l[j].id
    /\ Len(mreturned) = 1 => mreturned[1] = matchOutbox[1].games

C13_Witness ==
    /\ Len(mreturned) = 1
    /\ \E i, j \in DOMAIN mreturned[1] :
         /\ i < j
         /\ mreturned[1][i].excitement = mreturned[1][j].excitement
         /\ mreturned[1][i].opponent # mreturned[1][j].opponent
    /\ \E i, j \in DOMAIN mreturned[1] :
         /\ i < j
         /\ mreturned[1][i].excitement > mreturned[1][j].excitement
         /\ mreturned[1][i].id > mreturned[1][j].id

Band(e) ==
    CASE e >= 9 -> "must-see"
      [] e >= 7 /\ e < 9 -> "premier"
      [] e >= 6 /\ e < 7 -> "exciting"
      [] e < 6 -> "standard"

GroupsWith(groups, id) ==
    { name \in {"must-see", "premier", "exciting", "standard"} :
        id \in IdsOf(CASE name = "must-see" -> groups.mustSee
                       [] name = "premier" -> groups.premier
                       [] name = "exciting" -> groups.exciting
                       [] name = "standard" -> groups.standard) }

\* C14: the bands cut at 9, 7 and 6: the fire marks logged for a game are
\* those of its band, and logSummary puts every game in exactly one group,
\* the group of its band.
C14_Bands ==
    /\ \A k \in DOMAIN labels :
         labels[k].label =
            CASE Band(labels[k].excitement) = "must-see" -> "fire fire fire"
              [] Band(labels[k].excitement) = "premier" -> "fire fire"
              [] Band(labels[k].excitement) = "exciting" -> "fire"
              [] Band(labels[k].excitement) = "standard" -> ""
    /\ Len(summary) = 1 =>
         /\ \A g \in Range(mreturned[1]) :
              GroupsWith(summary[1], g.id) = {Band(g.excitement)}
         /\ Len(summary[1].mustSee) + Len(summary[1].premier)
              + Len(summary[1].exciting) + Len(summary[1].standard)
              = Len(mreturned[1])

C14_Witness ==
    /\ Len(summary) = 1
    /\ \E g \in Range(summary[1].mustSee) : g.excitement = 9
    /\ \E g \in Range(summary[1].premier) : g.excitement = 7
    /\ \E g \in Range(summary[1].standard) : g.excitement = 5

\* C15: in every matchup mail the badge of each game, in the html and in the
\* text body, is the one of the band of the game's stored excitement.
C15_BadgeOfStoredExcitement ==
    \A m \in DOMAIN matchOutbox :
        \A k \in DOMAIN matchOutbox[m].games :
            LET band == Band(matchOutbox[m].games[k].excitement)
            IN /\ matchOutbox[m].html.blocks[k].badge =
                    CASE band = "must-see" -> "MUST-SEE GAME"
                      [] band = "premier" -> "PREMIER MATCHUP"
                      [] band = "exciting" -> "Exciting Game"
                      [] band = "standard" -> "Standard Matchup"
               /\ matchOutbox[m].text.blocks[k].badge =
                    CASE band = "must-see" -> "MUST-SEE GAME"
                      [] band = "premier" -> "PREMIER MATCHUP"
                      [] band = "exciting" -> "Exciting Game"
                      [] band = "standard" -> ""

\* the teams the README's nicknames stand for
ReadmeTeams ==
    { "Boston Celtics", "Brooklyn Nets", "Philadelphia 76ers", "Los Angeles Lakers",
      "Golden State Warriors", "Dallas Mavericks", "Milwaukee Bucks" }

\* C16: with the preferred_opponents of the README, every game against one
\* of its teams is marked isPreferred and stored with min(base + 1, 10).
C16_ReadmeListBoosts ==
    preferredOpponents = <<ReadmePreferred>> =>
        \A g \in Rated :
            g.opponent \in ReadmeTeams =>
                /\ g.isPreferred
                /\ g.excitement = Min(BaseOf(g) + 1, 10)

\* C30: a run hands at most one mail to the transport; a run that ended
\* normally sent one exactly when the source returned a game; a mail holds
\* all upcoming games, rated and sorted, and the no-games message exactly
\* when none is within the window; the summary is logged only after the send
\* resolved.
C30_OneMail ==
    /\ Len(matchOutbox) <= 1
    /\ mpc = "done" => (Len(matchOutbox) = 1 <=> Len(games) > 0)
    /\ Len(games) = 0 => matchOutbox = <<>>
    /\ \A m \in DOMAIN matchOutbox :
         /\ mi > Len(upcomingGames)
         /\ IdsOf(matchOutbox[m].games) = IdsOf(upcomingGames)
         /\ Len(matchOutbox[m].games) = Len(upcomingGames)
         /\ \A i, j \in DOMAIN matchOutbox[m].games :
              i < j => matchOutbox[m].games[i].excitement
                         >= matchOutbox[m].games[j].excitement
         /\ matchOutbox[m].html.noGames <=> upcomingGames = <<>>
         /\ matchOutbox[m].text.noGames <=> upcomingGames = <<>>
    /\ Len(summary) = 1 => (Len(matchOutbox) = 1 /\ mpc = "done")
    /\ mpc = "failed" => (summary = <<>> /\ mreturned = <<>>)

C30_Witness ==
    /\ mpc = "done"
    /\ Len(games) = 2
    /\ upcomingGames = <<>>
    /\ Len(matchOutbox) = 1
    /\ matchOutbox[1].html.noGames /\ matchOutbox[1].text.noGames
    /\ Len(summary) = 1

(***************************************************************************)
(* Successive runs (checked under SpecRerun).                              *)
(***************************************************************************)
\* C24: what a run stores for an opponent is what every run before stored
\* for it, and it is the boost applied once to the base value of the team
\* data: at most base + 1, whatever the number of runs.
C24_BoostIdempotent ==
    \A g \in Rated :
        /\ \A p \in previous : p[1] = g.opponent => p[2] = g.excitement
        /\ g.excitement <= BaseOf(g) + 1
        /\ g.excitement = IF g.isPreferred THEN Min(BaseOf(g) + 1, 10) ELSE BaseOf(g)

C24_Witness ==
    /\ <<"Cleveland Cavaliers", 9>> \in previous
    /\ <<"Knicks Fan Night", 5>> \in previous
    /\ \E g \in Rated :
         /\ g.opponent = "Cleveland Cavaliers"
         /\ g.isPreferred /\ BaseOf(g) = 8 /\ g.excitement = 9

(***************************************************************************)
(* getUpcomingRecommendations (checked under SpecUpcoming).                *)
(***************************************************************************)
DateFiltered == SelectSeq(urGames, withinDaysAhead)

\* C29: the games queried are, in order, the first games of the
\* date-filtered list and never more than five; a query that failed is
\* followed by the queries of the remaining games, the call returns after
\* all of them and rejects only when no game was queried; every entry
\* collected has a non-empty ticket list and belongs to a query that did
\* not fail, in the order of the queries.
C29_FirstFiveEachOnItsOwn ==
    /\ Len(urQueried) <= 5
    /\ Len(urQueried) <= Len(DateFiltered)
    /\ \A k \in DOMAIN urQueried : urQueried[k].id = DateFiltered[k].id
    /\ urPc = "returned" =>
         \/ Len(urQueried) = 5
         \/ Len(urQueried) = Len(DateFiltered)
    /\ urPc = "rejected" => (urQueried = <<>> /\ urGames = <<>>)
    /\ \A r \in DOMAIN urRecs :
         /\ Len(urRecs[r].tickets) > 0
         /\ \E k \in DOMAIN urQueried :
              urQueried[k].id = urRecs[r].game.id /\ ~urQueried[k].threw
    /\ \A r1, r2 \in DOMAIN urRecs : r1 < r2 => urRecs[r1].game.id < urRecs[r2].game.id

C29_Witness ==
    /\ urPc = "returned"
    /\ Len(DateFiltered) = 6
    /\ Len(urQueried) = 5
    /\ urQueried[2].threw
    /\ [k \in DOMAIN urRecs |-> urRecs[k].game.id] = <<1, 3, 5>>

(***************************************************************************)
(* The requests (checked under SpecTeamInfo and SpecRequest).              *)
(***************************************************************************)
FetchSettled == Len(fetchResult) = 1

C22_PendingCanProceed ==
    (mrReq # "none" /\ mrResult = <<>>) => ENABLED NextRequest

(***************************************************************************)
(* Listings without a price (checked under SpecMalformed).                 *)
(***************************************************************************)
\* C23: a listing whose price is not a number is neither the findBestSeats
\* result nor an entry of a ranked list.
C23_UnscoreableLeftOut ==
    /\ bestSeats # null => bestSeats.price # NaN
    /\ \A r \in DOMAIN recommendations :
         \A k \in DOMAIN recommendations[r].bestSeats :
            recommendations[r].bestSeats[k].price # NaN

====
